---- MODULE Spec2Model ----
(***************************************************************************)
(* CHIMP training service: plugin registry (app/plugin.py), task dispatch  *)
(* (app/endpoints/training_endpoints.py) and the Celery-backed worker      *)
(* (app/worker.py).                                                        *)
(*                                                                         *)
(* Strings that the code edits (plugin names in URLs, object names of the  *)
(* datastore listing) are sequences of tokens, so that str.replace is      *)
(* computed rather than assumed.  A message built by an f-string is the    *)
(* sequence of its parts.  Python's None is the value None.                *)
(***************************************************************************)
EXTENDS Integers, Sequences, FiniteSets, TLC

None == "None"

\* ------------------------------------------------------------------------
\* Bounds
\* ------------------------------------------------------------------------
\* Tasks the queue accepts before the model stops dispatching.
MaxTasks == 1
\* Tasks started through WorkerManager.start_task directly (WorkerSpec).
MaxRuns == 2
\* Seconds the clock runs.
MaxTime == 2
\* Versions of its models the tracking server publishes.
MaxVersion == 2
\* Dataset keys a plugin declares.
MaxDeclared == 2
\* Requests the legacy serving service receives.
MaxRequests == 3
\* Calls of TrainingPipelineSingleton.invoke.
MaxInvokes == 3

\* ------------------------------------------------------------------------
\* Plugins of the plugin directory
\* ------------------------------------------------------------------------
ExamplePlugin == <<"Example", " ", "Plugin">>
Example2Plugin == <<"Example", " ", "2", " ", "Plugin">>
TestingPlugin == <<"Testing", " ", "Plugin">>
EmotionRecognitionPlugin == <<"Emotion", " ", "Recognition">>

\* config.LEGACY_PLUGIN_NAME, config.LEGACY_DATASET_NAME
LEGACY_PLUGIN_NAME == EmotionRecognitionPlugin
LEGACY_DATASET_NAME == <<"emotions">>

\* Files of PLUGIN_DIRECTORY; testplugin.py is the file the test fixture
\* writes and removes again, broken.py a module whose import raises (a
\* syntax error, a missing dependency).
PluginFiles == {"example", "example2.py", "emotion_recognition", "testplugin.py",
                "broken.py"}
PermanentFiles == {"example", "example2.py", "emotion_recognition"}

\* importlib.import_module (plugin.py lines 116, 118) raises for this file.
ImportFails(file) == file = "broken.py"

\* The BasePlugin subclass a module of the directory defines.
PluginOfFile(file) ==
    CASE file = "example" -> ExamplePlugin
      [] file = "example2.py" -> Example2Plugin
      [] file = "emotion_recognition" -> EmotionRecognitionPlugin
      [] file = "testplugin.py" -> TestingPlugin

\* load_plugins over a listing when every import of a loadable file is
\* carried out: the names indexed at line 129.
Index(listing) == { PluginOfFile(f) : f \in { g \in listing : ~ImportFails(g) } }

PluginNames == Index(PluginFiles)

\* One declared argument: the dictionary key, the "name" entry and the
\* "optional" entry ("True", "False", or "absent" when not given).
Arg(key, name, optional) == [key |-> key, name |-> name, optional |-> optional]
\* One declared dataset: key and "optional" entry ("absent" when not given).
Ds(key, optional) == [key |-> key, optional |-> optional]

\* BasePlugin.info() of each plugin: asdict(PluginInfo), reduced to the two
\* entries the dispatcher reads, in declaration order.
PluginInfo(name) ==
    CASE name = ExamplePlugin ->
           [arguments |-> <<>>, datasets |-> <<>>]
      [] name = Example2Plugin ->
           [arguments |-> << Arg("start_value", "start_value", "absent"),
                             Arg("settings", "settings", "True") >>,
            datasets |-> << Ds("dataset", "absent"), Ds("optional_ds", "True") >>]
      [] name = TestingPlugin ->
           [arguments |-> << Arg("arg1", "test", "absent") >>, datasets |-> <<>>]
      [] name = EmotionRecognitionPlugin ->
           [arguments |-> << Arg("experiment_name", "experiment_name", "False"),
                             Arg("trainnew", "trainnew", "True"),
                             Arg("basedata", "basedata", "True"),
                             Arg("newdata", "newdata", "True"),
                             Arg("personaldata", "personaldata", "True"),
                             Arg("user_id", "user_id", "True") >>,
            datasets |-> <<>>]

\* ------------------------------------------------------------------------
\* Strings
\* ------------------------------------------------------------------------
\* str.replace(old, new) on a token sequence; new = <<>> deletes.
Replace(s, old, new) ==
    LET F[i \in 0..Len(s)] ==
          IF i = 0 THEN <<>>
          ELSE F[i - 1] \o (IF s[i] = old THEN new ELSE <<s[i]>>)
    IN F[Len(s)]

\* The URL form of a name: '+' where the name has a space.
Plus(name) == Replace(name, " ", <<"+">>)

\* ------------------------------------------------------------------------
\* Datastore
\* ------------------------------------------------------------------------
\* Object names that list_from_datastore("", recursive=False) returns: the
\* top-level folders (with their trailing '/') of the bucket.
DatastoreListing == { <<"TestingDataset", "/">>, <<"emotions", "/">> }

\* training_endpoints.start_task, lines 106-109.
datasets_on_datastore == { Replace(ds, "/", <<>>) : ds \in DatastoreListing }

\* Dataset names a caller may write into the datasets dictionary.
DatasetNames == { <<"TestingDataset">>, <<"DoesNotExist">> }


\* ------------------------------------------------------------------------
\* Requests
\* ------------------------------------------------------------------------
\* Values of a form or query field.
FieldValues == {"", "42"}

\* MultiDict.get(key): the value, or None when the field is not there.
Get(fields, key) == IF key \in DOMAIN fields THEN fields[key] ELSE None

\* Python truth of a string-or-None value.
Truthy(value) == value \notin {None, ""}

\* The 'datasets' form field.  kind says what the field holds: "absent" (no
\* such field), "empty" (the empty string), "garbage" (text json.loads
\* rejects), "null" (the JSON text null) or "object" (a JSON object, whose
\* members map dataset keys to dataset names).
DatasetsField(kind, members) == [kind |-> kind, members |-> members]

\* ------------------------------------------------------------------------
\* Validation of a dispatch request (training_endpoints.start_task)
\* ------------------------------------------------------------------------
NoMessage == <<>>

\* CheckDatasetKeys without the test of line 113: a key the caller left out
\* is passed over, optional or not.
RECURSIVE CheckDatasetKeysAllOptional(_, _, _, _)
CheckDatasetKeysAllOptional(declared, datasets, i, acc) ==
    IF i > Len(declared)
    THEN [status |-> 200, message |-> NoMessage, datasets_kwarg |-> acc]
    ELSE LET dataset_name == declared[i].key
         IN IF dataset_name \notin DOMAIN datasets
            THEN CheckDatasetKeysAllOptional(declared, datasets, i + 1, acc)
            ELSE LET dataset_name_on_datastore == datasets[dataset_name]
                 IN IF dataset_name_on_datastore \notin datasets_on_datastore
                    THEN [status |-> 400,
                          message |-> <<"Dataset ">> \o dataset_name_on_datastore
                                          \o <<" not found">>,
                          datasets_kwarg |-> acc]
                    ELSE CheckDatasetKeysAllOptional(declared, datasets, i + 1,
                             (dataset_name :> dataset_name_on_datastore) @@ acc)

\* CheckDatasetKeys without the test of line 118: a dataset name is taken
\* over whether or not the datastore lists it.
RECURSIVE CheckDatasetKeysUnlisted(_, _, _, _)
CheckDatasetKeysUnlisted(declared, datasets, i, acc) ==
    IF i > Len(declared)
    THEN [status |-> 200, message |-> NoMessage, datasets_kwarg |-> acc]
    ELSE LET dataset_name == declared[i].key
             optional == declared[i].optional
         IN IF dataset_name \notin DOMAIN datasets
            THEN IF optional # "True"
                 THEN [status |-> 400,
                       message |-> <<"Missing required dataset '", dataset_name, "'">>,
                       datasets_kwarg |-> acc]
                 ELSE CheckDatasetKeysUnlisted(declared, datasets, i + 1, acc)
            ELSE CheckDatasetKeysUnlisted(declared, datasets, i + 1,
                     (dataset_name :> datasets[dataset_name]) @@ acc)

\* Lines 110-121: the loop over the declared datasets, from the i-th on;
\* acc is datasets_kwarg so far.  The first failing key raises.
RECURSIVE CheckDatasetKeys(_, _, _, _)
CheckDatasetKeys(declared, datasets, i, acc) ==
    IF i > Len(declared)
    THEN [status |-> 200, message |-> NoMessage, datasets_kwarg |-> acc]
    ELSE LET dataset_name == declared[i].key
             optional == declared[i].optional
         IN IF dataset_name \notin DOMAIN datasets
            THEN IF optional # "True"
                 THEN [status |-> 400,
                       message |-> <<"Missing required dataset '", dataset_name, "'">>,
                       datasets_kwarg |-> acc]
                 ELSE CheckDatasetKeys(declared, datasets, i + 1, acc)
            ELSE LET dataset_name_on_datastore == datasets[dataset_name]
                 IN IF dataset_name_on_datastore \notin datasets_on_datastore
                    THEN [status |-> 400,
                          message |-> <<"Dataset ">> \o dataset_name_on_datastore
                                          \o <<" not found">>,
                          datasets_kwarg |-> acc]
                    ELSE CheckDatasetKeys(declared, datasets, i + 1,
                             (dataset_name :> dataset_name_on_datastore) @@ acc)

\* Lines 92-124: the datasets check on the 'datasets' field of
\* current_request.  JSON null decodes to None, on which the membership
\* test of line 111 raises TypeError: an unhandled error, status 500.
CheckDatasets(info, field) ==
    IF Len(info.datasets) = 0
    THEN [status |-> 200, message |-> NoMessage, datasets_kwarg |-> <<>>]
    ELSE IF field.kind \in {"absent", "empty"}
    THEN [status |-> 400, message |-> <<"Must specify the required datasets">>,
          datasets_kwarg |-> <<>>]
    ELSE IF field.kind = "garbage"
    THEN [status |-> 400, message |-> <<"Could not decode the datasets dictionary: ">>,
          datasets_kwarg |-> <<>>]
    ELSE IF field.kind = "null"
    THEN [status |-> 500, message |-> NoMessage, datasets_kwarg |-> <<>>]
    ELSE CheckDatasetKeys(info.datasets, field.members, 1, <<>>)

\* Lines 127-134: the loop over the declared arguments, from the i-th on;
\* acc is the argument part of kwargs so far.
RECURSIVE CheckArguments(_, _, _, _, _)
CheckArguments(declared, form, args, i, acc) ==
    IF i > Len(declared)
    THEN [status |-> 200, message |-> NoMessage, kwargs |-> acc]
    ELSE LET key == declared[i].name
             in_form == Get(form, key)
             value == IF Truthy(in_form) THEN in_form ELSE Get(args, key)
         IN IF ~Truthy(value) /\ declared[i].optional # "True"
            THEN [status |-> 400,
                  message |-> <<"Missing required argument '", key, "'">>,
                  kwargs |-> acc]
            ELSE CheckArguments(declared, form, args, i + 1, (key :> value) @@ acc)

\* Validate with the argument check moved behind the call of
\* worker_manager.start_task: a missing argument is still answered with 400,
\* but the task has been handed over by then.
ValidateArgumentsLate(plugin_name, field, form, args, loaded) ==
    LET name == Replace(plugin_name, "+", <<" ">>)
        rejected(status, message) ==
            [status |-> status, message |-> message, call |-> FALSE,
             plugin_name |-> name, datasets |-> <<>>, arguments |-> <<>>]
    IN IF name \notin loaded
       THEN rejected(404, NoMessage)
       ELSE LET info == PluginInfo(name)
                ds == CheckDatasets(info, field)
                ar == CheckArguments(info.arguments, form, args, 1, <<>>)
            IN IF ds.status # 200 THEN rejected(ds.status, ds.message)
               ELSE [status |-> ar.status, message |-> ar.message, call |-> TRUE,
                     plugin_name |-> name, datasets |-> ds.datasets_kwarg,
                     arguments |-> ar.kwargs]

\* The handler up to line 136.  plugin_name is the URL segment, field the
\* 'datasets' field of current_request, form and args the fields of
\* flask.request, loaded the registry at line 88.  call says whether line
\* 136 (worker_manager.start_task) is reached, with which keyword arguments.
Validate(plugin_name, field, form, args, loaded) ==
    LET name == Replace(plugin_name, "+", <<" ">>)
        rejected(status, message) ==
            [status |-> status, message |-> message, call |-> FALSE,
             plugin_name |-> name, datasets |-> <<>>, arguments |-> <<>>]
    IN IF name \notin loaded
       THEN rejected(404, NoMessage)
       ELSE LET info == PluginInfo(name)
                ds == CheckDatasets(info, field)
                ar == CheckArguments(info.arguments, form, args, 1, <<>>)
            IN IF ds.status # 200 THEN rejected(ds.status, ds.message)
               ELSE IF ar.status # 200 THEN rejected(ar.status, ar.message)
               ELSE [status |-> 200, message |-> NoMessage, call |-> TRUE,
                     plugin_name |-> name, datasets |-> ds.datasets_kwarg,
                     arguments |-> ar.kwargs]

\* ------------------------------------------------------------------------
\* State
\* ------------------------------------------------------------------------
VARIABLES
    plugin_directory,   \* files now in PLUGIN_DIRECTORY
    _loaded_plugins,    \* PluginLoader._loaded_plugins of the web process (its keys)
    worker_plugins,     \* PluginLoader._loaded_plugins of the worker process (its keys)
    reload,             \* the load_plugins call of a GET /plugins in progress
    last_load,          \* listing and index of the last load_plugins that returned
    dispatch,           \* the POST /tasks/run request between line 88 and line 136
    tasks,              \* the queue and result backend: one record per task id
    tmp_dirs,           \* ephemeral directories that exist on the worker's disk
    utcnow,             \* datetime.utcnow(), in whole seconds
    uuids,              \* number of uuid4() values handed out so far
    poll,               \* the GET /tasks/poll request inside get_task_status
    polled,             \* per task id, the first ready=true result a poll returned
    resp,               \* the response just sent, until the client has taken it
    mlflow,             \* the MLflow tracking server the serving API talks to
    _models,            \* InferenceManager._models
    _available_models,  \* InferenceManager._available_models
    _last_update,       \* InferenceManager._last_update
    fetched,            \* second of the last non-forced get_available_models, -1 if none
    out,                \* outcome of the last InferenceManager call, until taken
    check,              \* a datasets check of start_task: its inputs and its result
    store,              \* a store_model call of a plugin's run: arguments and return
    runs,               \* runs recorded on the training service's tracking server
    requests,           \* legacy serving: the infer_from_calibrated_model calls
    retrievals,         \* legacy serving: the _get_calibrated_model threads
    _calibrated_model_retrieval_list,   \* legacy serving: model ids being retrieved
    calibrated_models,  \* legacy serving: the model ids among the keys of _models
    invokes,            \* experimentation: the TrainingPipelineSingleton.invoke calls
    training_threads,   \* experimentation: the _invoke_async threads
    _is_training        \* experimentation: TrainingPipelineSingleton._is_training

\* State of the serving API (serving_api/app/inference.py).
serving == <<mlflow, _models, _available_models, _last_update, fetched, out>>

\* State outside the two services' request handling.
\* State of the training service.
training == <<plugin_directory, _loaded_plugins, worker_plugins, reload, last_load,
              dispatch, tasks, tmp_dirs, utcnow, uuids, poll, polled, resp>>

\* State of the legacy serving service (serving/logic/inference.py) and of
\* the experimentation service (experimentation_handler.py).
legacy == <<requests, retrievals, _calibrated_model_retrieval_list, calibrated_models>>
experimentation == <<invokes, training_threads, _is_training>>

elsewhere == <<check, store, runs, legacy, experimentation>>

vars == <<plugin_directory, _loaded_plugins, reload, last_load, dispatch, tasks,
          tmp_dirs, utcnow, uuids, poll, polled, resp, serving, elsewhere, worker_plugins>>

NoResp == [route |-> "none"]
Idle == [active |-> FALSE]

\* The id the queue gives the n-th task.
TaskId(n) == ToString(n)

\* No load_plugins call is under way.
NoReload == [active |-> FALSE, todo |-> {}, old |-> {}, listing |-> {}]

\* No call of the InferenceManager has an outcome waiting.
NoOut == [op |-> "none"]

\* The training service after create_app (app/__init__.py lines 13-38):
\* load_plugins has run once over the plugin directory.
TrainingInit ==
    /\ plugin_directory = PermanentFiles
    /\ _loaded_plugins = Index(PermanentFiles)
    /\ worker_plugins = Index(PermanentFiles)
    /\ reload = NoReload
    /\ last_load = [listing |-> PermanentFiles, names |-> Index(PermanentFiles)]
    /\ dispatch = Idle
    /\ tasks = <<>>
    /\ tmp_dirs = {}
    /\ utcnow = 0
    /\ uuids = 0
    /\ poll = Idle
    /\ polled = <<>>
    /\ resp = NoResp

\* The serving API before its create_app: nothing loaded, nothing known.
ServingOff ==
    /\ mlflow = [up |-> TRUE, version |-> 1]
    /\ _models = <<>>
    /\ _available_models = {}
    /\ _last_update = 0
    /\ fetched = -1
    /\ out = NoOut

\* Nothing else is under way.
NoCheck == [state |-> "none"]
NoStore == [state |-> "none"]
LegacyInit ==
    /\ requests = <<>>
    /\ retrievals = <<>>
    /\ _calibrated_model_retrieval_list = <<>>
    /\ calibrated_models = {}
ExperimentationInit ==
    /\ invokes = <<>>
    /\ training_threads = <<>>
    /\ _is_training = FALSE
ElsewhereOff ==
    /\ check = NoCheck
    /\ store = NoStore
    /\ runs = {}
    /\ LegacyInit
    /\ ExperimentationInit

Init == TrainingInit /\ ServingOff /\ ElsewhereOff

\* ------------------------------------------------------------------------
\* Requests the clients send
\* ------------------------------------------------------------------------
PartialFunctions(keys, values) == UNION { [S -> values] : S \in SUBSET keys }

\* URL segments of POST /tasks/run/<plugin_name>.
PluginDoesNotExist == <<"Plugin", "+", "Does", "+", "Not", "+", "Exist">>
UrlNames == { Plus(n) : n \in PluginNames } \cup { PluginDoesNotExist }

\* Field names that occur in the form and query of a request.
RequestFields == {"start_value", "arg1", "test", "experiment_name"}

Declared(plugin_name) ==
    LET name == Replace(plugin_name, "+", <<" ">>)
    IN IF name \in PluginNames THEN PluginInfo(name)
       ELSE [arguments |-> <<>>, datasets |-> <<>>]

\* A request carries fields among the keys and names the addressed plugin
\* declares; no other field is ever read.
FieldsFor(plugin_name) ==
    LET a == Declared(plugin_name).arguments
    IN ({ a[i].key : i \in DOMAIN a } \cup { a[i].name : i \in DOMAIN a })
       \cap RequestFields

\* The 'datasets' fields sent to a plugin.
DatasetsFieldsFor(plugin_name) ==
    LET d == Declared(plugin_name).datasets
        keys == { d[i].key : i \in DOMAIN d }
    IN IF keys = {}
       THEN { DatasetsField("absent", <<>>),
              DatasetsField("object", "dataset" :> <<"TestingDataset">>) }
       ELSE { DatasetsField(k, <<>>) : k \in {"absent", "empty", "garbage", "null"} }
            \cup { DatasetsField("object", m) : m \in PartialFunctions(keys, DatasetNames) }

\* The request as the handler sees it: flask.request (form, args) and the
\* 'datasets' field of current_request; passed says whether current_request
\* is a passed_request of the legacy route.
Request(plugin_name, field, form, args, passed) ==
    [plugin_name |-> plugin_name, datasets |-> field, form |-> form, args |-> args,
     passed |-> passed]

\* ------------------------------------------------------------------------
\* POST /tasks/run/<plugin_name>
\* ------------------------------------------------------------------------
\* The response to a dispatch request.  call: whether WorkerManager.start_task
\* was called; queued_before: length of the queue when the request arrived;
\* loaded: the registry as line 88 found it; loaded_call: the registry as
\* WorkerManager.start_task found it.
RunResponse(status, message, task_id, request, call, queued_before, loaded, loaded_call) ==
    [route |-> "run", status |-> status, message |-> message, task_id |-> task_id,
     request |-> request, call |-> call, queued_before |-> queued_before,
     loaded |-> loaded, loaded_call |-> loaded_call]

NoDir == <<>>
NoName == <<>>

\* A task as start_task hands it to the queue (line 124): state PENDING.
NewTask(plugin_name, datasets, arguments) ==
    [plugin_name |-> plugin_name, datasets |-> datasets, arguments |-> arguments,
     pc |-> "queued", state |-> "PENDING", result |-> None,
     run_name |-> NoName, temp_dir |-> NoDir, run_datasets |-> <<>>]

\* training_endpoints.start_task up to line 136, for a request and the
\* registry it finds: either the rejection is sent, or the handler stands
\* before the call of worker_manager.start_task.
Handle(request) ==
    LET o == Validate(request.plugin_name, request.datasets, request.form,
                      request.args, _loaded_plugins)
    IN IF o.call
       THEN /\ dispatch' = [active |-> TRUE, plugin_name |-> o.plugin_name,
                            datasets |-> o.datasets, arguments |-> o.arguments,
                            status |-> o.status, message |-> o.message,
                            request |-> request, queued_before |-> Len(tasks),
                            loaded |-> _loaded_plugins]
            /\ resp' = resp
       ELSE /\ dispatch' = dispatch
            /\ resp' = RunResponse(o.status, o.message, None, request, FALSE,
                                   Len(tasks), _loaded_plugins, _loaded_plugins)

StartTaskRequest ==
    /\ resp.route = "none" /\ ~dispatch.active /\ ~poll.active
    /\ Len(tasks) < MaxTasks
    /\ \E plugin_name \in UrlNames :
       \E field \in DatasetsFieldsFor(plugin_name) :
       \E form \in PartialFunctions(FieldsFor(plugin_name), FieldValues) :
       \E args \in PartialFunctions(FieldsFor(plugin_name), FieldValues) :
          Handle(Request(plugin_name, field, form, args, FALSE))
    /\ UNCHANGED <<plugin_directory, _loaded_plugins, reload, last_load, tasks,
                   tmp_dirs, utcnow, uuids, poll, polled, serving, elsewhere, worker_plugins>>

\* POST /model/train (model_train_or_calibrate with a segment other than
\* "calibrate"): start_task for LEGACY_PLUGIN_NAME with a passed_request whose
\* form holds only the datasets dictionary {"train": LEGACY_DATASET_NAME}.
ModelTrainRequest ==
    /\ resp.route = "none" /\ ~dispatch.active /\ ~poll.active
    /\ Len(tasks) < MaxTasks
    /\ \E form \in PartialFunctions(FieldsFor(LEGACY_PLUGIN_NAME), FieldValues) :
       \E args \in PartialFunctions(FieldsFor(LEGACY_PLUGIN_NAME), FieldValues) :
          Handle(Request(LEGACY_PLUGIN_NAME,
                         DatasetsField("object", "train" :> LEGACY_DATASET_NAME),
                         form, args, TRUE))
    /\ UNCHANGED <<plugin_directory, _loaded_plugins, reload, last_load, tasks,
                   tmp_dirs, utcnow, uuids, poll, polled, serving, elsewhere, worker_plugins>>

\* start_task without the test of lines 121-122.
StartTaskFindsAny(plugin_name, loaded) == TRUE

\* WorkerManager.start_task, worker.py lines 121-122: whether the plugin is
\* in the registry.
StartTaskFinds(plugin_name, loaded) == plugin_name \in loaded

\* WorkerManager.start_task (worker.py lines 121-125) as called at line 136,
\* and the response of lines 137-140.
WorkerManagerStartTask ==
    /\ resp.route = "none" /\ dispatch.active
    /\ LET found == StartTaskFinds(dispatch.plugin_name, _loaded_plugins)
           task_id == IF found THEN TaskId(Len(tasks) + 1) ELSE None
       IN /\ tasks' = IF found
                      THEN Append(tasks, NewTask(dispatch.plugin_name, dispatch.datasets,
                                                 dispatch.arguments))
                      ELSE tasks
          /\ resp' = RunResponse(dispatch.status,
                                 IF dispatch.status = 200
                                 THEN <<"task started successfully">>
                                 ELSE dispatch.message,
                                 task_id, dispatch.request, TRUE,
                                 dispatch.queued_before, dispatch.loaded,
                                 _loaded_plugins)
    /\ dispatch' = Idle
    /\ UNCHANGED <<plugin_directory, _loaded_plugins, reload, last_load, tmp_dirs,
                   utcnow, uuids, poll, polled, serving, elsewhere, worker_plugins>>

\* The client takes the response.
Deliver ==
    /\ resp.route # "none"
    /\ resp' = NoResp
    /\ UNCHANGED <<plugin_directory, _loaded_plugins, reload, last_load, dispatch,
                   tasks, tmp_dirs, utcnow, uuids, poll, polled, serving, elsewhere, worker_plugins>>

\* ------------------------------------------------------------------------
\* GET /plugins and PluginLoader.load_plugins
\* ------------------------------------------------------------------------
\* PluginLoader.loaded_plugins: the names of the index.
loaded_plugins == _loaded_plugins

\* The answer of GET /plugins.  reloaded: whether load_plugins was called;
\* listing: the directory listing that call worked through; previous: the
\* listing and index of the load_plugins call that returned before it.
PluginsResponse(status, reloaded, plugins, listing, previous) ==
    [route |-> "plugins", status |-> status, reloaded |-> reloaded,
     plugins |-> plugins, listing |-> listing, previous |-> previous]

\* get_plugins without reload_plugins (lines 41-52); another request may be
\* inside load_plugins meanwhile.
GetPlugins ==
    /\ resp.route = "none"
    /\ resp' = PluginsResponse(200, FALSE, loaded_plugins, {}, last_load)
    /\ UNCHANGED <<plugin_directory, _loaded_plugins, reload, last_load, dispatch,
                   tasks, tmp_dirs, utcnow, uuids, poll, polled, serving, elsewhere, worker_plugins>>

\* get_plugins with reload_plugins: load_plugins lines 110-111 empty the
\* index and list the directory.
LoadPluginsBegin ==
    /\ resp.route = "none" /\ ~reload.active
    /\ _loaded_plugins' = {}
    /\ reload' = [active |-> TRUE, todo |-> plugin_directory,
                  old |-> _loaded_plugins, listing |-> plugin_directory]
    /\ UNCHANGED <<plugin_directory, last_load, dispatch, tasks, tmp_dirs, utcnow,
                   uuids, poll, polled, resp, serving, elsewhere, worker_plugins>>

\* Line 129 for a plugin that the load before had not indexed only.
RegisterNew(index, file) ==
    IF PluginOfFile(file) \in last_load.names THEN index
    ELSE index \cup {PluginOfFile(file)}

\* Lines 119-129: the plugin of an imported module is indexed by its name.
Register(index, file) == index \cup {PluginOfFile(file)}

\* load_plugins lines 112-129 for one file of the listing: import the
\* module and index its plugin.  An import that raises is not caught: the
\* exception leaves load_plugins and get_plugins (an unhandled error, 500),
\* and the index stays as far as it was filled.
LoadPluginsFile ==
    /\ resp.route = "none" /\ reload.active
    /\ \E file \in reload.todo :
          IF ImportFails(file)
          THEN /\ reload' = NoReload
               /\ resp' = PluginsResponse(500, TRUE, loaded_plugins, reload.listing,
                                          last_load)
               /\ UNCHANGED _loaded_plugins
          ELSE /\ _loaded_plugins' = Register(_loaded_plugins, file)
               /\ reload' = [reload EXCEPT !.todo = @ \ {file}]
               /\ UNCHANGED resp
    /\ UNCHANGED <<plugin_directory, last_load, dispatch, tasks, tmp_dirs, utcnow,
                   uuids, poll, polled, serving, elsewhere, worker_plugins>>

\* load_plugins has returned; get_plugins lines 47-52 answer.
LoadPluginsEnd ==
    /\ resp.route = "none" /\ reload.active /\ reload.todo = {}
    /\ reload' = NoReload
    /\ last_load' = [listing |-> reload.listing, names |-> _loaded_plugins]
    /\ resp' = PluginsResponse(200, TRUE, loaded_plugins, reload.listing, last_load)
    /\ UNCHANGED <<plugin_directory, _loaded_plugins, dispatch, tasks, tmp_dirs,
                   utcnow, uuids, poll, polled, serving, elsewhere, worker_plugins>>

\* A plugin file is written into, or removed from, the plugin directory,
\* between two loads: the file of the test fixture,
WritePluginFile ==
    /\ resp.route = "none" /\ ~reload.active
    /\ "testplugin.py" \notin plugin_directory
    /\ plugin_directory' = plugin_directory \cup {"testplugin.py"}
    /\ UNCHANGED <<_loaded_plugins, reload, last_load, dispatch, tasks, tmp_dirs,
                   utcnow, uuids, poll, polled, resp, serving, elsewhere, worker_plugins>>

\* or a module that does not import.
WriteBrokenFile ==
    /\ resp.route = "none" /\ ~reload.active
    /\ \E file \in { f \in PluginFiles : ImportFails(f) } \ plugin_directory :
          plugin_directory' = plugin_directory \cup {file}
    /\ UNCHANGED <<_loaded_plugins, reload, last_load, dispatch, tasks, tmp_dirs,
                   utcnow, uuids, poll, polled, resp, serving, elsewhere, worker_plugins>>

RemovePluginFile ==
    /\ resp.route = "none" /\ ~reload.active
    /\ \E file \in plugin_directory \ PermanentFiles :
          plugin_directory' = plugin_directory \ {file}
    /\ UNCHANGED <<_loaded_plugins, reload, last_load, dispatch, tasks, tmp_dirs,
                   utcnow, uuids, poll, polled, resp, serving, elsewhere, worker_plugins>>

\* ------------------------------------------------------------------------
\* The worker: WorkerManager._run_task
\* ------------------------------------------------------------------------
\* What the worker's own PluginLoader holds after load_plugins (line 49).
WorkerPlugins == Index(plugin_directory)
\* load_plugins (line 49) raises: a module of the directory fails to import.
WorkerLoadRaises == \E file \in plugin_directory : ImportFails(file)

\* Line 55: strftime("%Y%m%d%H%M%S"), one value per second.
Timestamp(t) == ToString(t)
\* Line 56: uuid4().hex; a value uuid4 has not handed out before.
Uuid4Hex(n) == <<"uuid", ToString(n)>>

\* Line 56 without the uuid: the second and the plugin name alone.
RunNameOfSecond(timestamp, plugin_name, hex) ==
    <<timestamp, "_">> \o plugin_name

\* Line 56: f"{timestamp}_{plugin_name}_{uuid4().hex}".
RunName(timestamp, plugin_name, hex) ==
    <<timestamp, "_">> \o plugin_name \o <<"_">> \o hex

\* Suffixes mkdtemp draws from.
TempSuffixes == { ToString(i) : i \in 1..(MaxTasks + MaxRuns) }
\* mkdtemp(prefix=...) (line 60): makes a directory that did not exist, its
\* name the prefix and a suffix.
Mkdtemp(prefix) ==
    CHOOSE d \in { prefix \o <<s>> : s \in TempSuffixes } : d \notin tmp_dirs

\* Folders inside DATA_DIRECTORY on the worker's disk: create_app makes the
\* directory (app/__init__.py lines 21-22) and no code of the service stores
\* anything in it; uploaded datasets go to the datastore.
DataDirectoryFolders == {}

\* Lines 64-71: each dataset name joined to DATA_DIRECTORY.
DatasetPaths(datasets) ==
    [k \in DOMAIN datasets |-> <<"DATA_DIRECTORY", "/">> \o datasets[k]]

\* The task ends in FAILURE with the exception that left _run_task.
Failed(n, exception) ==
    [tasks EXCEPT ![n].pc = "done", ![n].state = "FAILURE", ![n].result = exception]

\* Lines 44-74: load and resolve the plugin, name the run, make the
\* temporary directory, resolve the datasets; the plugin's run starts.  A
\* call without plugin_name (lines 45-46), a failing load or an unknown
\* plugin ends the task with the exception.
RunTaskStart(n) ==
    /\ resp.route = "none"
    /\ tasks[n].pc = "queued"
    /\ IF tasks[n].plugin_name = NoName
       THEN /\ tasks' = Failed(n, "PluginNotFoundError")
            /\ UNCHANGED <<tmp_dirs, uuids, worker_plugins>>
       ELSE IF WorkerLoadRaises
       THEN /\ tasks' = Failed(n, "ImportError")
            /\ \E listed \in SUBSET { f \in plugin_directory : ~ImportFails(f) } :
                  worker_plugins' = Index(listed)
            /\ UNCHANGED <<tmp_dirs, uuids>>
       ELSE IF tasks[n].plugin_name \notin WorkerPlugins
       THEN /\ tasks' = Failed(n, "PluginNotFoundError")
            /\ worker_plugins' = WorkerPlugins
            /\ UNCHANGED <<tmp_dirs, uuids>>
       ELSE LET run_name == RunName(Timestamp(utcnow), tasks[n].plugin_name,
                                    Uuid4Hex(uuids + 1))
                plugin_tmp_dir == Mkdtemp(<<"chimp_">> \o run_name)
            IN /\ tasks' = [tasks EXCEPT ![n].pc = "running",
                                         ![n].run_name = run_name,
                                         ![n].temp_dir = plugin_tmp_dir,
                                         ![n].run_datasets = DatasetPaths(tasks[n].datasets)]
               /\ tmp_dirs' = tmp_dirs \cup {plugin_tmp_dir}
               /\ uuids' = uuids + 1
               /\ worker_plugins' = WorkerPlugins
    /\ UNCHANGED <<plugin_directory, _loaded_plugins, reload, last_load, dispatch,
                   utcnow, poll, polled, resp, serving, elsewhere>>

\* What run returns: the run methods of example2.py and of the testing
\* plugin end without a return statement.
RunResult(plugin_name) ==
    IF plugin_name \in {Example2Plugin, TestingPlugin} THEN None ELSE "run_id"

\* _run_task that cleans up every temporary directory when a run returns.
RunTaskReturnRemovesAll(n) ==
    /\ resp.route = "none"
    /\ tasks[n].pc = "running"
    /\ tmp_dirs' = {}
    /\ tasks' = [tasks EXCEPT ![n].pc = "done", ![n].state = "SUCCESS",
                              ![n].result = RunResult(tasks[n].plugin_name)]
    /\ UNCHANGED <<plugin_directory, _loaded_plugins, reload, last_load, dispatch,
                   utcnow, uuids, poll, polled, resp, serving, elsewhere, worker_plugins>>

\* plugin.run returns (line 75); lines 78-79 remove the directory and
\* return the run id, which the queue stores as the result.
RunTaskReturn(n) ==
    /\ resp.route = "none"
    /\ tasks[n].pc = "running"
    /\ tmp_dirs' = tmp_dirs \ {tasks[n].temp_dir}
    /\ tasks' = [tasks EXCEPT ![n].pc = "done", ![n].state = "SUCCESS",
                              ![n].result = RunResult(tasks[n].plugin_name)]
    /\ UNCHANGED <<plugin_directory, _loaded_plugins, reload, last_load, dispatch,
                   utcnow, uuids, poll, polled, resp, serving, elsewhere, worker_plugins>>

\* plugin.run raises and the worker goes down with it: the tasks it has not
\* finished are never finished.
RunTaskRaiseStopsWorker(n) ==
    /\ resp.route = "none"
    /\ tasks[n].pc = "running"
    /\ tasks' = [m \in DOMAIN tasks |->
                    IF m = n THEN Failed(n, "Exception")[n]
                    ELSE IF tasks[m].pc = "done" THEN tasks[m]
                    ELSE [tasks[m] EXCEPT !.pc = "lost"]]
    /\ UNCHANGED <<plugin_directory, _loaded_plugins, reload, last_load, dispatch,
                   tmp_dirs, utcnow, uuids, poll, polled, resp, serving, elsewhere, worker_plugins>>

\* plugin.run raises (line 75): the exception leaves _run_task, and the
\* queue stores it as the result; the worker goes on.
RunTaskRaise(n) ==
    /\ resp.route = "none"
    /\ tasks[n].pc = "running"
    /\ tasks' = Failed(n, "Exception")
    /\ UNCHANGED <<plugin_directory, _loaded_plugins, reload, last_load, dispatch,
                   tmp_dirs, utcnow, uuids, poll, polled, resp, serving, elsewhere, worker_plugins>>

\* A second passes.
Tick ==
    /\ resp.route = "none" /\ out.op = "none"
    /\ utcnow < MaxTime
    /\ utcnow' = utcnow + 1
    /\ UNCHANGED <<plugin_directory, _loaded_plugins, reload, last_load, dispatch,
                   tasks, tmp_dirs, uuids, poll, polled, resp, serving, elsewhere, worker_plugins>>

\* WorkerManager.start_task called directly, as tests/unit/test_worker.py
\* does: no validation, only the plugin name.
StartTask ==
    /\ resp.route = "none" /\ ~dispatch.active
    /\ Len(tasks) < MaxRuns
    /\ \E plugin_name \in {ExamplePlugin, Example2Plugin, TestingPlugin} :
          tasks' = IF StartTaskFinds(plugin_name, _loaded_plugins)
                   THEN Append(tasks, NewTask(plugin_name, <<>>, <<>>))
                   ELSE tasks
    /\ UNCHANGED <<plugin_directory, _loaded_plugins, reload, last_load, dispatch,
                   tmp_dirs, utcnow, uuids, poll, polled, resp, serving, elsewhere, worker_plugins>>

\* _run_task invoked directly, as tests/unit/test_worker.py does: without a
\* plugin_name, with a name no plugin has, or with a plugin's name.
DoesNotExistName == <<"doesnotexist">>
RunTaskCall ==
    /\ resp.route = "none"
    /\ Len(tasks) < MaxRuns
    /\ \E plugin_name \in {NoName, DoesNotExistName, TestingPlugin, Example2Plugin} :
       \E datasets \in {<<>>, "dataset" :> <<"TestingDataset">>} :
          tasks' = Append(tasks, NewTask(plugin_name, datasets, <<>>))
    /\ UNCHANGED <<plugin_directory, _loaded_plugins, reload, last_load, dispatch,
                   tmp_dirs, utcnow, uuids, poll, polled, resp, serving, elsewhere,
                   worker_plugins>>

\* ------------------------------------------------------------------------
\* GET /tasks/poll/<task_id> and WorkerManager.get_task_status
\* ------------------------------------------------------------------------
\* Ids a client polls: those the queue gives out, and one it never does.
PollIds == { TaskId(n) : n \in 1..MaxTasks } \cup {"DOESNOTEXIST"}

Known(task_id) == \E n \in DOMAIN tasks : TaskId(n) = task_id
TaskOf(task_id) == tasks[CHOOSE n \in DOMAIN tasks : TaskId(n) = task_id]

\* celery.result.AsyncResult: the state and result the backend holds for an
\* id.  An id the backend knows nothing of is PENDING, with result None.
AsyncState(task_id) == IF Known(task_id) THEN TaskOf(task_id).state ELSE "PENDING"
\* A backend that hands a result out once and has forgotten it afterwards.
AsyncValueOnce(task_id) ==
    IF Known(task_id) /\ task_id \notin DOMAIN polled THEN TaskOf(task_id).result
    ELSE None
AsyncValue(task_id) == IF Known(task_id) THEN TaskOf(task_id).result ELSE None
\* AsyncResult.ready()
AsyncReady(task_id) == AsyncState(task_id) \in {"SUCCESS", "FAILURE"}
\* Line 159, 'if res': an AsyncResult object is true whatever its id.
AsyncTruth(task_id) == TRUE

\* Whether the worker has finished the task of this id.
Finished(task_id) == Known(task_id) /\ TaskOf(task_id).pc = "done"

\* Line 163 without its 'if ready': successful() is asked whatever ready()
\* said before.
SuccessfulUnguarded(ready, state) ==
    IF state = "SUCCESS" THEN "True" ELSE IF state = "FAILURE" THEN "False" ELSE None

\* Line 163.
Successful(ready, state) ==
    IF ready THEN (IF state = "SUCCESS" THEN "True" ELSE "False") ELSE None

\* Line 164: AsyncResult.get() raises the exception of a failed task again;
\* AsyncResult.result is whatever the backend holds.
GetRaises(ready, state) == ready /\ state = "FAILURE"

PollResponse(status, task_id, ready, successful, value, done_at_begin, known) ==
    [route |-> "poll", status |-> status, task_id |-> task_id, ready |-> ready,
     successful |-> successful, value |-> value,
     done_at_begin |-> done_at_begin, known |-> known]

\* Lines 158-160: the AsyncResult is made and ready() is read.  An id for
\* which get_task_status returns None is answered with 404 (poll, lines
\* 162-163).
PollBegin ==
    /\ resp.route = "none" /\ ~dispatch.active /\ ~poll.active
    /\ \E task_id \in PollIds :
          IF AsyncTruth(task_id)
          THEN /\ poll' = [active |-> TRUE, task_id |-> task_id,
                           ready |-> AsyncReady(task_id),
                           done |-> Finished(task_id),
                           known |-> Known(task_id)]
               /\ resp' = resp
          ELSE /\ poll' = poll
               /\ resp' = PollResponse(404, task_id, FALSE, None, None, FALSE,
                                       Known(task_id))
    /\ UNCHANGED <<plugin_directory, _loaded_plugins, reload, last_load, dispatch,
                   tasks, tmp_dirs, utcnow, uuids, polled, serving, elsewhere, worker_plugins>>

\* Lines 161-165 and poll, lines 162-164: the TaskResult is built and
\* answered; an exception out of get() is an unhandled error, status 500.
PollEnd ==
    /\ resp.route = "none" /\ poll.active
    /\ LET state == AsyncState(poll.task_id)
           successful == Successful(poll.ready, state)
           response ==
               IF GetRaises(poll.ready, state)
               THEN PollResponse(500, poll.task_id, poll.ready, successful, None,
                                 poll.done, poll.known)
               ELSE PollResponse(200, poll.task_id, poll.ready, successful,
                                 AsyncValue(poll.task_id), poll.done, poll.known)
       IN resp' = response
    /\ poll' = Idle
    /\ UNCHANGED <<plugin_directory, _loaded_plugins, reload, last_load, dispatch,
                   tasks, tmp_dirs, utcnow, uuids, polled, serving, elsewhere, worker_plugins>>

\* What the client remembers of the polls of an id: the first result that
\* said ready=true.
Remember(response) ==
    IF response.route # "poll" \/ response.status # 200 \/ ~response.ready
           \/ response.task_id \in DOMAIN polled
    THEN polled
    ELSE (response.task_id :> [successful |-> response.successful,
                               value |-> response.value]) @@ polled

\* The client takes the response and remembers what a poll told it.
DeliverPoll ==
    /\ resp.route # "none"
    /\ polled' = Remember(resp)
    /\ resp' = NoResp
    /\ UNCHANGED <<plugin_directory, _loaded_plugins, reload, last_load, dispatch,
                   tasks, tmp_dirs, utcnow, uuids, poll, serving, elsewhere, worker_plugins>>

\* ------------------------------------------------------------------------
\* Specification
\* ------------------------------------------------------------------------
Next ==
    \/ StartTaskRequest
    \/ ModelTrainRequest
    \/ WorkerManagerStartTask
    \/ GetPlugins
    \/ LoadPluginsBegin
    \/ LoadPluginsFile
    \/ LoadPluginsEnd
    \/ WritePluginFile
    \/ RemovePluginFile
    \/ \E n \in DOMAIN tasks : RunTaskStart(n)
    \/ \E n \in DOMAIN tasks : RunTaskReturn(n)
    \/ \E n \in DOMAIN tasks : RunTaskRaise(n)
    \/ PollBegin
    \/ PollEnd
    \/ Deliver

Spec == Init /\ [][Next]_vars

\* The plugin registry on its own: listing, reloading and a plugin directory
\* that may hold a module that does not import.
LoaderNext ==
    \/ GetPlugins
    \/ LoadPluginsBegin
    \/ LoadPluginsFile
    \/ LoadPluginsEnd
    \/ WritePluginFile
    \/ WriteBrokenFile
    \/ RemovePluginFile
    \/ Deliver

LoaderSpec == Init /\ [][LoaderNext]_vars

\* The worker on its own: tasks started through WorkerManager.start_task
\* and executed side by side while the clock runs.  Every queued task is
\* taken up by a worker process, and every run of a plugin ends.
WorkerNext ==
    \/ StartTask
    \/ \E n \in DOMAIN tasks : RunTaskStart(n)
    \/ \E n \in DOMAIN tasks : RunTaskReturn(n)
    \/ \E n \in DOMAIN tasks : RunTaskRaise(n)
    \/ Tick

\* Tasks started through WorkerManager.start_task, executed and polled again
\* and again by a client that remembers the answers.
PollNext ==
    \/ StartTask
    \/ \E n \in DOMAIN tasks : RunTaskStart(n)
    \/ \E n \in DOMAIN tasks : RunTaskReturn(n)
    \/ \E n \in DOMAIN tasks : RunTaskRaise(n)
    \/ PollBegin
    \/ PollEnd
    \/ DeliverPoll

PollSpec == Init /\ [][PollNext]_vars

WorkerFairness ==
    \A n \in 1..MaxRuns :
        /\ WF_vars(n \in DOMAIN tasks /\ RunTaskStart(n))
        /\ WF_vars(n \in DOMAIN tasks /\ (RunTaskReturn(n) \/ RunTaskRaise(n)))

WorkerSpec == Init /\ [][WorkerNext]_vars /\ WorkerFairness

\* Executions on their own: _run_task invoked directly, over a plugin
\* directory that changes and may hold a module that does not import.
ExecNext ==
    \/ RunTaskCall
    \/ \E n \in DOMAIN tasks : RunTaskStart(n)
    \/ \E n \in DOMAIN tasks : RunTaskReturn(n)
    \/ \E n \in DOMAIN tasks : RunTaskRaise(n)
    \/ WritePluginFile
    \/ WriteBrokenFile
    \/ RemovePluginFile

ExecSpec == Init /\ [][ExecNext]_vars

\* ------------------------------------------------------------------------
\* The serving API: connectors.MLFlowConnector
\* ------------------------------------------------------------------------
\* config.MODEL_UPDATE_INTERVAL_SECONDS (300 seconds by default), counted in
\* ticks of utcnow: for the serving API one tick is 300 seconds.
MODEL_UPDATE_INTERVAL_SECONDS == 1

\* Names the callers and the tracking server use: a registered model with a
\* staging and a production version, a registered model with a staging
\* version only, the run name of a calibrated model, and a name nobody has.
GlobalModel == "test_global_model"
StagedModel == "staged_model"
CalibratedModel == "test_calibrated_model"
DoesNotExist == "does-not-exist"

\* MlflowClient.search_model_versions(""), with the run name get_run gives
\* for each version's run and the stages the registered model has.
ModelVersions ==
    { [name |-> GlobalModel, run_id |-> "run_1", run_name |-> CalibratedModel,
       stages |-> {"staging", "production"}],
      [name |-> StagedModel, run_id |-> "run_2", run_name |-> "staged_run",
       stages |-> {"staging"}] }

\* get_available_models (lines 139-149) when the server answers.
GetAvailableModels == UNION { {v.name, v.run_id, v.run_name} : v \in ModelVersions }

\* What mlflow_pyfunc.load_model returns now for a model of that name.
Content(name) == [of |-> name, version |-> mlflow.version]

\* OnnxModel(name, {"staging": ..., "production": ...}); BaseModel.__init__
\* stamps it with utcnow().
OnnxModel(name, staging, production) ==
    [name |-> name, staging |-> staging, production |-> production, updated |-> utcnow]

\* _get_calibrated_model (lines 88-98) returns: the server answers and has
\* exactly one run of that name; otherwise MlflowException.
CalibratedLoads(model_id) ==
    mlflow.up /\ Cardinality({ v \in ModelVersions : v.run_name = model_id }) = 1

\* _get_global_model (lines 100-105) returns: the server answers and the
\* registered model has both stages; otherwise MlflowException.
GlobalLoads(model_name) ==
    mlflow.up /\ \E v \in ModelVersions :
                    v.name = model_name /\ {"staging", "production"} \subseteq v.stages

\* A tag without a loaded model, and get_model's None.
NoContent == [of |-> "", version |-> 0]
NoModel == [name |-> "", staging |-> NoContent, production |-> NoContent, updated |-> 0]

\* get_model (lines 107-119): the calibrated model if an id is given, after
\* MlflowException the global model, after another one None.
GetModel(model_name, model_id) ==
    IF model_id # "" /\ CalibratedLoads(model_id)
    THEN OnnxModel(model_id, Content(model_id), Content(model_id))
    ELSE IF GlobalLoads(model_name)
    THEN OnnxModel(model_name, Content(model_name), Content(model_name))
    ELSE NoModel

\* The load for one tag inside update_model (lines 125-131) succeeds.
TagLoads(model, tag) ==
    mlflow.up /\ \E v \in ModelVersions : v.name = model.name /\ tag \in v.stages

\* update_model (lines 121-137): stamp the model, then load every tag anew;
\* a tag whose load raises MlflowException keeps what it had.
UpdateModel(model) ==
    [model EXCEPT !.updated = utcnow,
                  !.staging = IF TagLoads(model, "staging")
                              THEN Content(model.name) ELSE @,
                  !.production = IF TagLoads(model, "production")
                                 THEN Content(model.name) ELSE @]

\* ------------------------------------------------------------------------
\* The serving API: inference.InferenceManager
\* ------------------------------------------------------------------------
\* _get_model (lines 132-154) on the loaded models: found, and the loaded
\* models afterwards.
GetModelInto(models, model_name, model_id) ==
    LET model == GetModel(model_name, model_id)
    IN IF model = NoModel THEN [found |-> FALSE, models |-> models]
       ELSE [found |-> TRUE,
             models |-> ((IF model_id # "" THEN model_id ELSE model_name) :> model)
                            @@ models]

\* The line-124 test: a refresh is due.
Due(force) == force \/ utcnow - _last_update > MODEL_UPDATE_INTERVAL_SECONDS

\* update_models (lines 121-130): whether it fetched, the exception that
\* left it (None if it returned), and the available and loaded models after
\* it.  Comparing model.updated, a datetime, with the timedelta of line 121
\* raises TypeError.
UpdateModels(force, load_models) ==
    LET same(raises) == [fetch |-> Due(force), raises |-> raises,
                         available |-> _available_models, models |-> _models]
    IN IF ~Due(force) THEN same(None)
       ELSE IF ~mlflow.up THEN same("MlflowException")
       ELSE IF ~load_models \/ DOMAIN _models = {}
       THEN [same(None) EXCEPT !.available = GetAvailableModels]
       ELSE IF ~force
       THEN [same("TypeError") EXCEPT !.available = GetAvailableModels]
       ELSE [same(None) EXCEPT !.available = GetAvailableModels,
                               !.models = [k \in DOMAIN _models |->
                                              UpdateModel(_models[k])]]

\* infer, lines 80-94: the model selected (its key in the loaded models,
\* None if there is none) and the loaded models afterwards.
Select(models, available, model_name, model_id) ==
    LET pick(ms, key, id) ==
            IF key \in DOMAIN ms THEN [models |-> ms, selected |-> key]
            ELSE IF key \in available
            THEN LET got == GetModelInto(ms, model_name, id)
                 IN [models |-> got.models,
                     selected |-> IF got.found THEN key ELSE None]
            ELSE [models |-> ms, selected |-> None]
        calibrated == IF model_id # "" THEN pick(models, model_id, model_id)
                      ELSE [models |-> models, selected |-> None]
    IN IF calibrated.selected # None THEN calibrated
       ELSE pick(calibrated.models, model_name, "")

\* The outcome of a call: what was asked, whether the available models were
\* fetched, what left the call, and the state the call found.
Outcome(op, model_name, model_id, force, fetch, raised, served) ==
    [op |-> op, model_name |-> model_name, model_id |-> model_id, force |-> force,
     fetch |-> fetch, raised |-> raised, served |-> served,
     previous_fetch |-> fetched, up |-> mlflow.up,
     loaded_before |-> _models, available_before |-> _available_models]

\* InferenceManager.infer (lines 77-101).
Infer ==
    /\ out.op = "none"
    /\ \E model_name \in {GlobalModel, StagedModel, DoesNotExist} :
       \E model_id \in {"", CalibratedModel, "run_1"} :
          LET u == UpdateModels(FALSE, FALSE)
              sel == Select(u.models, u.available, model_name, model_id)
          IN /\ _available_models' = u.available
             /\ fetched' = IF u.fetch THEN utcnow ELSE fetched
             /\ IF u.raises # None
                THEN /\ _models' = u.models
                     /\ out' = Outcome("infer", model_name, model_id, FALSE, u.fetch,
                                       u.raises, None)
                ELSE /\ _models' = sel.models
                     /\ out' = Outcome("infer", model_name, model_id, FALSE, u.fetch,
                                       IF sel.selected = None THEN "ModelNotFoundError"
                                       ELSE None,
                                       sel.selected)
    /\ UNCHANGED <<elsewhere, worker_plugins, plugin_directory, _loaded_plugins, reload, last_load,
                   dispatch, tasks, tmp_dirs, utcnow, uuids, poll, polled, resp, mlflow,
                   _last_update>>

\* GET /model?reload_models=true (inference_endpoints.get_models, lines
\* 32-36): update_models(force=True, load_models=True).
ReloadModels ==
    /\ out.op = "none"
    /\ LET u == UpdateModels(TRUE, TRUE)
       IN /\ _available_models' = u.available
          /\ _models' = u.models
          /\ out' = Outcome("update_models", "", "", TRUE, u.fetch, u.raises, None)
    /\ UNCHANGED <<elsewhere, worker_plugins, plugin_directory, _loaded_plugins, reload, last_load,
                   dispatch, tasks, tmp_dirs, utcnow, uuids, poll, polled, resp, mlflow,
                   _last_update, fetched>>

\* The caller takes the outcome.
Return ==
    /\ out.op # "none"
    /\ out' = NoOut
    /\ UNCHANGED <<elsewhere, worker_plugins, plugin_directory, _loaded_plugins, reload, last_load,
                   dispatch, tasks, tmp_dirs, utcnow, uuids, poll, polled, resp, mlflow,
                   _models, _available_models, _last_update, fetched>>

\* The tracking server becomes unreachable, or reachable again.
MlflowDownUp ==
    /\ out.op = "none"
    /\ mlflow' = [mlflow EXCEPT !.up = ~@]
    /\ UNCHANGED <<elsewhere, worker_plugins, plugin_directory, _loaded_plugins, reload, last_load,
                   dispatch, tasks, tmp_dirs, utcnow, uuids, poll, polled, resp,
                   _models, _available_models, _last_update, fetched, out>>

\* New versions of the registered models are published.
MlflowPublish ==
    /\ out.op = "none"
    /\ mlflow.version < MaxVersion
    /\ mlflow' = [mlflow EXCEPT !.version = @ + 1]
    /\ UNCHANGED <<elsewhere, worker_plugins, plugin_directory, _loaded_plugins, reload, last_load,
                   dispatch, tasks, tmp_dirs, utcnow, uuids, poll, polled, resp,
                   _models, _available_models, _last_update, fetched, out>>

\* The serving API after create_app: init_app (lines 44-47) has stamped
\* _last_update and called update_models(force=True).
ServingInit ==
    /\ TrainingInit
    /\ ElsewhereOff
    /\ mlflow = [up |-> TRUE, version |-> 1]
    /\ _models = <<>>
    /\ _available_models = GetAvailableModels
    /\ _last_update = 0
    /\ fetched = -1
    /\ out = NoOut

ServingNext ==
    \/ Infer
    \/ ReloadModels
    \/ Return
    \/ MlflowDownUp
    \/ MlflowPublish
    \/ Tick

ServingSpec == ServingInit /\ [][ServingNext]_vars

\* ------------------------------------------------------------------------
\* The datasets check of start_task on its own
\* ------------------------------------------------------------------------
\* Dataset keys plugins declare, and the "optional" entries they give them.
DatasetKeys == {"dataset", "optional_ds", "second_ds"}
OptionalEntries == {"absent", "True", "False"}

\* plugin_info["datasets"] of some plugin: up to MaxDeclared keys, no key
\* twice (it is a dictionary), in declaration order.
Declarations ==
    { d \in UNION { [1..n -> { Ds(k, o) : k \in DatasetKeys, o \in OptionalEntries }] :
                       n \in 0..MaxDeclared } :
        \A i, j \in DOMAIN d : d[i].key = d[j].key => i = j }

\* The 'datasets' fields a request can carry.
DatasetsFields ==
    { DatasetsField(k, <<>>) : k \in {"absent", "empty", "garbage", "null"} }
    \cup { DatasetsField("object", m) : m \in PartialFunctions(DatasetKeys, DatasetNames) }

\* A plugin's declaration and a request's field, before lines 92-124 run.
DatasetsInit ==
    /\ TrainingInit
    /\ ServingOff
    /\ store = NoStore
    /\ runs = {}
    /\ LegacyInit
    /\ ExperimentationInit
    /\ \E d \in Declarations : \E f \in DatasetsFields :
          check = [state |-> "request", declared |-> d, field |-> f,
                   result |-> [status |-> 0, message |-> NoMessage,
                               datasets_kwarg |-> <<>>]]

\* Lines 92-124 of start_task.
CheckDatasetsStep ==
    /\ check.state = "request"
    /\ check' = [check EXCEPT
                    !.state = "checked",
                    !.result = CheckDatasets([arguments |-> <<>>,
                                              datasets |-> check.declared],
                                             check.field)]
    /\ UNCHANGED <<plugin_directory, _loaded_plugins, reload, last_load, dispatch,
                   tasks, tmp_dirs, utcnow, uuids, poll, polled, resp, serving,
                   store, runs, worker_plugins, legacy, experimentation>>

DatasetsNext == CheckDatasetsStep

DatasetsSpec == DatasetsInit /\ [][DatasetsNext]_vars

\* ------------------------------------------------------------------------
\* connectors.MLFlowConnector.store_model of the training service
\* ------------------------------------------------------------------------
\* The plugin whose run stores its model under kwargs["run_name"].
GameArtStyleDetectorPlugin == <<"Game", " ", "Art", " ", "Style", " ", "Detector">>

\* Values of ModelType a caller passes, as strings.
ModelTypes == {"sklearn", "onnx", "tensorflow", "pytorch", "other"}

\* A plugin's run, started by _run_task with a run name of line 56, stands
\* before its call of store_model; the executor has drawn its uuid4.
StoreInit ==
    /\ plugin_directory = PermanentFiles
    /\ _loaded_plugins = Index(PermanentFiles)
    /\ worker_plugins = Index(PermanentFiles)
    /\ reload = NoReload
    /\ last_load = [listing |-> PermanentFiles, names |-> Index(PermanentFiles)]
    /\ dispatch = Idle
    /\ tasks = <<>>
    /\ tmp_dirs = {}
    /\ poll = Idle
    /\ polled = <<>>
    /\ resp = NoResp
    /\ ServingOff
    /\ check = NoCheck
    /\ runs = {}
    /\ LegacyInit
    /\ ExperimentationInit
    /\ utcnow \in 0..MaxTime
    /\ uuids \in 1..MaxRuns
    /\ \E experiment_name \in {"GameArtDetector", "TestExperiment"} :
       \E model_type \in ModelTypes :
       \E model_name \in {"", "TestModel"} :
          store = [state |-> "call", experiment_name |-> experiment_name,
                   run_name |-> RunName(Timestamp(utcnow), GameArtStyleDetectorPlugin,
                                        Uuid4Hex(uuids)),
                   model_type |-> model_type, model_name |-> model_name,
                   returned |-> <<>>]

\* store_model (lines 135-214): the run is started under a run name drawn
\* anew at line 148, tagged with the model type; the model, unless its type
\* is OTHER, is registered under model_name or else the experiment's name;
\* line 214 returns the run name.
StoreModel ==
    /\ store.state = "call"
    /\ LET run_name == Uuid4Hex(uuids + 1)
           model_name == IF store.model_name = "" THEN store.experiment_name
                         ELSE store.model_name
       IN /\ uuids' = uuids + 1
          /\ runs' = runs \cup
                 { [experiment |-> store.experiment_name, run_name |-> run_name,
                    model_type |-> store.model_type,
                    registered_model_name |-> IF store.model_type = "other" THEN ""
                                              ELSE model_name] }
          /\ store' = [store EXCEPT !.state = "returned", !.returned = run_name]
    /\ UNCHANGED <<plugin_directory, _loaded_plugins, reload, last_load, dispatch,
                   tasks, tmp_dirs, utcnow, poll, polled, resp, serving, check,
                   worker_plugins, legacy, experimentation>>

StoreNext == StoreModel

StoreSpec == StoreInit /\ [][StoreNext]_vars

\* ------------------------------------------------------------------------
\* The legacy serving service: serving/logic/inference.InferenceManager
\* ------------------------------------------------------------------------
\* Model ids the callers ask for: one whose run exists on the tracking
\* server, one no run has.
CalibratedId == "calibuser1"
UnknownId == "calibnobody"
ModelIds == {CalibratedId, UnknownId}

\* Elements of a list.
Elements(list) == { list[i] : i \in DOMAIN list }

\* list.remove(x): the list without the first x.
ListRemove(list, x) ==
    LET i == CHOOSE j \in DOMAIN list :
                 list[j] = x /\ \A k \in 1..(j - 1) : list[k] # x
    IN SubSeq(list, 1, i - 1) \o SubSeq(list, i + 1, Len(list))

\* A request thread enters infer_from_calibrated_model (line 38).
InferFromCalibratedModel ==
    /\ Len(requests) < MaxRequests
    /\ \E model_id \in ModelIds :
          requests' = Append(requests, [model_id |-> model_id, pc |-> "line41",
                                        answer |-> ""])
    /\ UNCHANGED <<training, serving, check, store, runs, experimentation, retrievals,
                   _calibrated_model_retrieval_list, calibrated_models>>

\* Line 41: is the model loaded?  If so lines 52-53 answer from it.
Line41(r) ==
    /\ requests[r].pc = "line41"
    /\ requests' = IF requests[r].model_id \in calibrated_models
                   THEN [requests EXCEPT ![r].pc = "done", ![r].answer = "calibrated"]
                   ELSE [requests EXCEPT ![r].pc = "line43"]
    /\ UNCHANGED <<training, serving, check, store, runs, experimentation, retrievals,
                   _calibrated_model_retrieval_list, calibrated_models>>

\* Line 43: is a retrieval under way?  If so line 49 answers from the
\* global model.
Line43(r) ==
    /\ requests[r].pc = "line43"
    /\ requests' = IF requests[r].model_id \in Elements(_calibrated_model_retrieval_list)
                   THEN [requests EXCEPT ![r].pc = "done", ![r].answer = "global"]
                   ELSE [requests EXCEPT ![r].pc = "line44"]
    /\ UNCHANGED <<training, serving, check, store, runs, experimentation, retrievals,
                   _calibrated_model_retrieval_list, calibrated_models>>

\* Lines 44-49: note the model id, start the retrieval thread, answer from
\* the global model.
Line44(r) ==
    /\ requests[r].pc = "line44"
    /\ _calibrated_model_retrieval_list' =
           Append(_calibrated_model_retrieval_list, requests[r].model_id)
    /\ retrievals' = Append(retrievals, [model_id |-> requests[r].model_id,
                                         pc |-> "search"])
    /\ requests' = [requests EXCEPT ![r].pc = "done", ![r].answer = "global"]
    /\ UNCHANGED <<training, serving, check, store, runs, experimentation,
                   calibrated_models>>

\* _get_calibrated_model, lines 94-98: search the runs.  mlflow_search_runs
\* is outside every try: when the tracking server does not answer, the
\* exception ends the thread.
Search(t) ==
    /\ retrievals[t].pc = "search"
    /\ retrievals' = [retrievals EXCEPT ![t].pc =
                         IF ~mlflow.up THEN "died"
                         ELSE IF retrievals[t].model_id = CalibratedId THEN "load"
                         ELSE "remove"]
    /\ UNCHANGED <<training, serving, check, store, runs, experimentation, requests,
                   _calibrated_model_retrieval_list, calibrated_models>>

\* Lines 99-106: load the model of the run; MlflowException and NoSuchFile
\* are caught.
Load(t) ==
    /\ retrievals[t].pc = "load"
    /\ \E loaded \in BOOLEAN :
          /\ loaded => mlflow.up
          /\ calibrated_models' = IF loaded
                                  THEN calibrated_models \cup {retrievals[t].model_id}
                                  ELSE calibrated_models
    /\ retrievals' = [retrievals EXCEPT ![t].pc = "remove"]
    /\ UNCHANGED <<training, serving, check, store, runs, experimentation, requests,
                   _calibrated_model_retrieval_list>>

\* Line 109: the retrieval is marked as finished.
Remove(t) ==
    /\ retrievals[t].pc = "remove"
    /\ _calibrated_model_retrieval_list' =
           ListRemove(_calibrated_model_retrieval_list, retrievals[t].model_id)
    /\ retrievals' = [retrievals EXCEPT ![t].pc = "finished"]
    /\ UNCHANGED <<training, serving, check, store, runs, experimentation, requests,
                   calibrated_models>>

\* A retrieval thread takes its next step.
Retrieve(t) == Search(t) \/ Load(t) \/ Remove(t)

LegacyNext ==
    \/ InferFromCalibratedModel
    \/ \E r \in DOMAIN requests : Line41(r)
    \/ \E r \in DOMAIN requests : Line43(r)
    \/ \E r \in DOMAIN requests : Line44(r)
    \/ \E t \in DOMAIN retrievals : Search(t)
    \/ \E t \in DOMAIN retrievals : Load(t)
    \/ \E t \in DOMAIN retrievals : Remove(t)
    \/ MlflowDownUp

\* Every thread that has been started is scheduled again and again.
LegacyFairness ==
    \A t \in 1..MaxRequests : WF_vars(t \in DOMAIN retrievals /\ Retrieve(t))

LegacySpec == Init /\ [][LegacyNext]_vars /\ LegacyFairness

\* ------------------------------------------------------------------------
\* The experimentation service: TrainingPipelineSingleton
\* ------------------------------------------------------------------------
\* POST /model/train: a request thread enters invoke (lines 22-23 load the
\* pipeline when there is none).
Invoke ==
    /\ Len(invokes) < MaxInvokes
    /\ invokes' = Append(invokes, [pc |-> "line25"])
    /\ UNCHANGED <<training, serving, check, store, runs, legacy, training_threads,
                   _is_training>>

\* Line 25: is a training under way?
Line25(i) ==
    /\ invokes[i].pc = "line25"
    /\ invokes' = [invokes EXCEPT ![i].pc = IF _is_training THEN "done" ELSE "line26"]
    /\ UNCHANGED <<training, serving, check, store, runs, legacy, training_threads,
                   _is_training>>

\* Lines 26-27: the training thread is created and started.
Line26(i) ==
    /\ invokes[i].pc = "line26"
    /\ training_threads' = Append(training_threads, [pc |-> "started"])
    /\ invokes' = [invokes EXCEPT ![i].pc = "done"]
    /\ UNCHANGED <<training, serving, check, store, runs, legacy, _is_training>>

\* _invoke_async, line 34: the thread, once it runs, sets the flag.
InvokeAsyncBegin(t) ==
    /\ training_threads[t].pc = "started"
    /\ _is_training' = TRUE
    /\ training_threads' = [training_threads EXCEPT ![t].pc = "running"]
    /\ UNCHANGED <<training, serving, check, store, runs, legacy, invokes>>

\* Lines 38-40: pipeline.run returns and the flag is cleared.
InvokeAsyncEnd(t) ==
    /\ training_threads[t].pc = "running"
    /\ _is_training' = FALSE
    /\ training_threads' = [training_threads EXCEPT ![t].pc = "finished"]
    /\ UNCHANGED <<training, serving, check, store, runs, legacy, invokes>>

\* Line 38: pipeline.run raises; the thread ends and line 40 is not reached.
InvokeAsyncRaise(t) ==
    /\ training_threads[t].pc = "running"
    /\ training_threads' = [training_threads EXCEPT ![t].pc = "died"]
    /\ UNCHANGED <<training, serving, check, store, runs, legacy, invokes,
                   _is_training>>

ExperimentationNext ==
    \/ Invoke
    \/ \E i \in DOMAIN invokes : Line25(i)
    \/ \E i \in DOMAIN invokes : Line26(i)
    \/ \E t \in DOMAIN training_threads : InvokeAsyncBegin(t)
    \/ \E t \in DOMAIN training_threads : InvokeAsyncEnd(t)
    \/ \E t \in DOMAIN training_threads : InvokeAsyncRaise(t)

ExperimentationSpec == Init /\ [][ExperimentationNext]_vars

\* ------------------------------------------------------------------------
\* Properties of dispatch
\* ------------------------------------------------------------------------
\* The plugin a dispatch response is about.
Addressed == Replace(resp.request.plugin_name, "+", <<" ">>)

\* C1: a request to POST /tasks/run/<plugin> that validation rejects (400)
\* never reaches WorkerManager.start_task, and the queue holds as many tasks
\* after the rejection as when the request arrived.
C1_RejectionEnqueuesNothing ==
    (resp.route = "run" /\ resp.status = 400)
        => (~resp.call /\ Len(tasks) = resp.queued_before)

\* C1 witness: a request is rejected for a missing required argument.
C1_Witness ==
    /\ resp.route = "run" /\ resp.status = 400
    /\ resp.message[1] = "Missing required argument '"

\* The datasets the addressed plugin declares.
DeclaredDatasets == PluginInfo(Addressed).datasets
\* The caller's datasets dictionary (when the field holds a JSON object).
Supplied == resp.request.datasets.members
\* The request maps dataset key d.
Supplies(d) == resp.request.datasets.kind = "object" /\ d \in DOMAIN Supplied
\* A declared dataset is required unless it is marked optional.
RequiredDataset(i) == DeclaredDatasets[i].optional # "True"
\* The message has d as one of its parts.
Names(message, d) == \E i \in DOMAIN message : message[i] = d
\* Every dataset declared before the i-th passes its check.
EarlierPass(i) ==
    \A j \in 1..(i - 1) :
        IF DeclaredDatasets[j].key \in DOMAIN Supplied
        THEN Supplied[DeclaredDatasets[j].key] \in datasets_on_datastore
        ELSE ~RequiredDataset(j)

DeclaredArguments == PluginInfo(Addressed).arguments
RequiredArgument(i) == DeclaredArguments[i].optional # "True"
\* The value the request holds for a field: the form's if that is non-empty,
\* else the query's.
Lookup(key) ==
    IF Truthy(Get(resp.request.form, key)) THEN Get(resp.request.form, key)
    ELSE Get(resp.request.args, key)
\* The request passes the datasets check of the addressed plugin.
DatasetsPass ==
    \/ Len(DeclaredDatasets) = 0
    \/ resp.request.datasets.kind = "object" /\ EarlierPass(Len(DeclaredDatasets) + 1)

\* C4 as claimed: for every argument key declared without optional=true, a
\* request is accepted only if the request holds a non-empty value for that
\* key (form first, then query); a request that passes the datasets check and
\* holds values for the keys declared before is otherwise answered 400
\* "Missing required argument '<key>'".
C4_Claimed ==
    (resp.route = "run" /\ Addressed \in resp.loaded) =>
        \A i \in DOMAIN DeclaredArguments :
            RequiredArgument(i) =>
                /\ resp.status = 200 => Truthy(Lookup(DeclaredArguments[i].key))
                /\ ( /\ ~Truthy(Lookup(DeclaredArguments[i].key))
                     /\ DatasetsPass
                     /\ \A j \in 1..(i - 1) :
                           RequiredArgument(j) => Truthy(Lookup(DeclaredArguments[j].key)) )
                   => /\ resp.status = 400
                      /\ resp.message = <<"Missing required argument '",
                                           DeclaredArguments[i].key, "'">>

\* C5: a dispatch for a name the registry lacks is answered 404 by the
\* endpoint, and WorkerManager.start_task returns None for it; neither
\* enqueues a task.
C5_UnknownPluginNotFound ==
    resp.route = "run" =>
        /\ Addressed \notin resp.loaded =>
              /\ resp.status = 404 /\ ~resp.call /\ resp.task_id = None
              /\ Len(tasks) = resp.queued_before
        /\ (resp.call /\ Addressed \notin resp.loaded_call) =>
              /\ resp.task_id = None
              /\ Len(tasks) = resp.queued_before

\* C5 witness: a dispatch for "Plugin Does Not Exist" has been answered.
C5_Witness ==
    /\ resp.route = "run"
    /\ resp.request.plugin_name = PluginDoesNotExist
    /\ resp.status = 404

\* The request holds every required dataset and argument of the addressed
\* plugin (arguments under their key and under their name).
AllRequiredSupplied ==
    /\ DatasetsPass
    /\ \A i \in DOMAIN DeclaredArguments :
          RequiredArgument(i) =>
              /\ Truthy(Lookup(DeclaredArguments[i].key))
              /\ Truthy(Lookup(DeclaredArguments[i].name))

\* C6 as claimed: a dispatch that names a registered plugin and supplies
\* every required argument and dataset is answered 200 with a task id of the
\* queue, never None, whatever runs beside it.
C6_Claimed ==
    (resp.route = "run" /\ Addressed \in resp.loaded /\ AllRequiredSupplied)
        => (resp.status = 200 /\ resp.task_id # None)

\* ------------------------------------------------------------------------
\* Properties of polling and execution
\* ------------------------------------------------------------------------
\* C7: a poll of a dispatched task that starts before the worker has
\* finished the task is answered ready=false with successful None; and when
\* the dispatch is answered with a task id, that task is still PENDING: the
\* handler has not waited for the run.
C7_PollBeforeCompletion ==
    /\ (resp.route = "poll" /\ resp.known /\ ~resp.done_at_begin) =>
          (resp.status = 200 /\ resp.ready = FALSE /\ resp.successful = None)
    /\ (resp.route = "run" /\ resp.task_id # None) =>
          (TaskOf(resp.task_id).state = "PENDING" /\ TaskOf(resp.task_id).pc = "queued")

\* C7 witness: a task that was dispatched and is running is polled; the
\* answer is ready=false.
C7_Witness ==
    /\ resp.route = "poll" /\ resp.known /\ ~resp.done_at_begin
    /\ resp.ready = FALSE
    /\ TaskOf(resp.task_id).pc = "running"

\* C8 as claimed: a poll of a task whose run has finished is answered (the
\* poll does not fail) with ready=true and successful telling whether run
\* returned; for a run that raised, successful is false and the value is a
\* diagnostic.
C8_Claimed ==
    (resp.route = "poll" /\ resp.done_at_begin) =>
        /\ resp.status = 200
        /\ resp.ready = TRUE
        /\ resp.successful =
              (IF TaskOf(resp.task_id).state = "SUCCESS" THEN "True" ELSE "False")
        /\ TaskOf(resp.task_id).state = "FAILURE" => resp.value # None

\* C9 as claimed: a poll of an id no dispatch has returned is answered 404.
C9_Claimed ==
    (resp.route = "poll" /\ ~resp.known) => resp.status = 404

\* C10 as claimed: once a task that made an ephemeral directory is in a
\* terminal state, the directory no longer exists.
C10_Claimed ==
    \A n \in DOMAIN tasks :
        (tasks[n].pc = "done" /\ tasks[n].temp_dir # NoDir)
            => tasks[n].temp_dir \notin tmp_dirs

\* ------------------------------------------------------------------------
\* Properties of run names and of the plugin registry
\* ------------------------------------------------------------------------
\* The task has passed line 56: it has a run name.
Named(n) == tasks[n].run_name # NoName

\* C11: any two task executions, also two running side by side for the same
\* plugin within the same second, have different run names and different
\* ephemeral directories.
C11_RunNamesDiffer ==
    \A n, m \in DOMAIN tasks :
        (n # m /\ Named(n) /\ Named(m))
            => /\ tasks[n].run_name # tasks[m].run_name
               /\ tasks[n].temp_dir # tasks[m].temp_dir

\* C11 witness: two executions of the same plugin, named within the same
\* second, are both inside the plugin's run.
C11_Witness ==
    \E n, m \in DOMAIN tasks :
        /\ n # m
        /\ tasks[n].pc = "running" /\ tasks[m].pc = "running"
        /\ tasks[n].plugin_name = tasks[m].plugin_name
        /\ tasks[n].run_name[1] = tasks[m].run_name[1]

\* C12: a load_plugins call that finds the directory listing the call before
\* it found leaves the set of names that call left.
C12_LoadTwice ==
    (resp.route = "plugins" /\ resp.reloaded /\ resp.status = 200
        /\ resp.listing = resp.previous.listing)
        => resp.plugins = resp.previous.names

\* C12 witness: the directory with the test plugin in it has been loaded
\* twice in a row.
C12_Witness ==
    /\ resp.route = "plugins" /\ resp.reloaded /\ resp.status = 200
    /\ resp.listing = resp.previous.listing
    /\ "testplugin.py" \in resp.listing
    /\ TestingPlugin \in resp.plugins

\* C13 as claimed: a load_plugins call returns whether or not a module of
\* the directory fails to import, and has indexed every plugin of the other
\* modules.
C13_Claimed ==
    (resp.route = "plugins" /\ resp.reloaded)
        => (resp.status = 200 /\ resp.plugins = Index(resp.listing))

\* What a reader of the index observed in the step that answered.
Observed == IF resp.route = "run" THEN resp.loaded_call ELSE resp.plugins

\* C14 as claimed: get_plugin (a dispatch) and loaded_plugins (a listing)
\* that run while load_plugins is under way see the whole index from before
\* the reload or the whole index after it.
C14_Claimed ==
    (reload.active /\ resp.route \in {"run", "plugins"})
        => Observed \in {reload.old, Index(reload.listing)}

\* ------------------------------------------------------------------------
\* Properties of the sequence of polls and of failing runs
\* ------------------------------------------------------------------------
\* A poll of an id for which an earlier poll returned ready=true returns
\* ready=true with the successful and value of that earlier poll.
LaterPollAgrees ==
    (resp.route = "poll" /\ resp.task_id \in DOMAIN polled)
        => /\ resp.status = 200 /\ resp.ready = TRUE
           /\ resp.successful = polled[resp.task_id].successful
           /\ resp.value = polled[resp.task_id].value

\* A step of a poll leaves the tasks as they are, and no step changes a
\* task that is in its terminal state.
TerminalStays ==
    /\ poll' # poll => tasks' = tasks
    /\ \A n \in DOMAIN tasks :
          tasks[n].pc = "done" => (n \in DOMAIN tasks' /\ tasks'[n] = tasks[n])

Raised(n) == n \in DOMAIN tasks /\ tasks[n].result = "Exception"

\* C16: when a plugin's run raises, the exception is the task's terminal
\* failure value, and the worker goes on: every task, in flight at that
\* moment or dispatched later, still reaches its own terminal state.
C16_FailureIsContained ==
    /\ [](\A n \in DOMAIN tasks :
            Raised(n) => (tasks[n].pc = "done" /\ tasks[n].state = "FAILURE"))
    /\ \A m \in 1..MaxRuns :
          (m \in DOMAIN tasks /\ \E n \in DOMAIN tasks : Raised(n))
              ~> (m \in DOMAIN tasks /\ tasks[m].pc = "done")

\* C16 witness: a run has raised, and a task that started its run after
\* that one has returned from it.
C16_Witness ==
    \E n, m \in DOMAIN tasks :
        /\ Raised(n)
        /\ tasks[m].pc = "done" /\ tasks[m].state = "SUCCESS"
        /\ tasks[n].run_name[Len(tasks[n].run_name)] = "1"
        /\ tasks[m].run_name[Len(tasks[m].run_name)] = "2"

\* The path leads to a folder that exists on the worker's disk.
Resolves(path) ==
    \E folder \in DataDirectoryFolders : path = <<"DATA_DIRECTORY", "/">> \o folder

\* The plugin's run has been invoked for task n.
RunInvoked(n) == tasks[n].temp_dir # NoDir

\* C17 as claimed: whenever run is invoked, the datasets mapping it gets has
\* an entry for every dataset key the plugin declares non-optional, and the
\* entry leads to the dataset's content.
C17_Claimed ==
    \A n \in DOMAIN tasks :
        RunInvoked(n) =>
            LET declared == PluginInfo(tasks[n].plugin_name).datasets
            IN \A i \in DOMAIN declared :
                  declared[i].optional # "True" =>
                      /\ declared[i].key \in DOMAIN tasks[n].run_datasets
                      /\ Resolves(tasks[n].run_datasets[declared[i].key])

\* The path lies inside the directory.
InsideDir(path, dir) ==
    Len(path) > Len(dir) /\ SubSeq(path, 1, Len(dir)) = dir

\* C22: every dataset path handed to a run lies inside that task's own
\* temporary directory, and no two tasks are handed the same path.
C22_Claimed ==
    \A n \in DOMAIN tasks :
        RunInvoked(n) =>
            \A k \in DOMAIN tasks[n].run_datasets :
                /\ InsideDir(tasks[n].run_datasets[k], tasks[n].temp_dir)
                /\ \A m \in DOMAIN tasks \ {n} :
                      RunInvoked(m) =>
                          \A j \in DOMAIN tasks[m].run_datasets :
                              tasks[m].run_datasets[j] # tasks[n].run_datasets[k]

\* C23: a model stored with the run name the executor generated is
\* recorded on the tracking server under exactly that run name, and
\* store_model returns it.
C23_Claimed ==
    store.state = "returned" =>
        /\ store.returned = store.run_name
        /\ \E r \in runs : r.run_name = store.run_name

\* A step in which _run_task starts on some task.
Executes == \E n \in DOMAIN tasks : tasks[n].pc = "queued" /\ tasks'[n].pc # "queued"

\* C24: an execution only reads the plugin registry: the index of the
\* worker's registry is the same after _run_task has resolved its plugin as
\* it was before.
C24_Claimed == [][Executes => worker_plugins' = worker_plugins]_vars

\* Task n is taken up by _run_task in this step and its plugin cannot be
\* resolved: no plugin_name, or none the registry has after the step.
FailsToResolve(n) ==
    /\ tasks[n].pc = "queued" /\ tasks'[n].pc # "queued"
    /\ tasks[n].plugin_name = NoName \/ tasks[n].plugin_name \notin worker_plugins'

\* C25: an execution that cannot resolve its plugin ends at once in failure
\* with PluginNotFoundError; no run name is generated, no temporary
\* directory is made and no run is invoked.
C25_Claimed ==
    [][\A n \in DOMAIN tasks :
          FailsToResolve(n) =>
              /\ tasks'[n].pc = "done" /\ tasks'[n].state = "FAILURE"
              /\ tasks'[n].result = "PluginNotFoundError"
              /\ tasks'[n].run_name = NoName /\ tasks'[n].temp_dir = NoDir
              /\ tmp_dirs' = tmp_dirs /\ uuids' = uuids]_vars

\* C26: while the run of a task is in progress, the temporary directory it
\* was given exists: it was made before run was invoked and nothing has
\* removed it.
C26_TempDirExistsDuringRun ==
    \A n \in DOMAIN tasks :
        tasks[n].pc = "running" =>
            tasks[n].temp_dir # NoDir /\ tasks[n].temp_dir \in tmp_dirs

\* C26 witness: a run that started while another was in progress has
\* returned, and the other is still in progress with its directory.
C26_Witness ==
    \E n, m \in DOMAIN tasks :
        /\ tasks[n].pc = "running" /\ tasks[n].temp_dir \in tmp_dirs
        /\ tasks[n].run_name[Len(tasks[n].run_name)] = "1"
        /\ tasks[m].pc = "done" /\ tasks[m].state = "SUCCESS"
        /\ tasks[m].run_name # NoName
        /\ tasks[m].run_name[Len(tasks[m].run_name)] = "2"

\* ------------------------------------------------------------------------
\* Properties of the serving API
\* ------------------------------------------------------------------------
\* The identifiers infer knows when it selects a model: the models loaded
\* when it was called and the available models after its update_models.
KnownModels == DOMAIN out.loaded_before \cup _available_models

\* C18: infer raises ModelNotFoundError only when the requested identifier
\* (model_id if given, and model_name) is neither a loaded model nor one of
\* the known-available models.
C18_Claimed ==
    (out.op = "infer" /\ out.raised = "ModelNotFoundError") =>
        /\ out.model_id = "" \/ out.model_id \notin KnownModels
        /\ out.model_name \notin KnownModels

\* C19: a non-forced call that fetches the available models after an earlier
\* non-forced fetch does so only when a full MODEL_UPDATE_INTERVAL_SECONDS
\* has passed since that fetch.
C19_Claimed ==
    (out.op # "none" /\ ~out.force /\ out.fetch /\ out.previous_fetch >= 0) =>
        utcnow - out.previous_fetch >= MODEL_UPDATE_INTERVAL_SECONDS

\* C20: when a call refreshes while the registry cannot supply the
\* available-model list, no exception leaves the call and every model that
\* was loaded is still loaded with the content it had.
C20_Claimed ==
    (out.op # "none" /\ out.fetch /\ ~out.up) =>
        /\ out.raised = None
        /\ \A k \in DOMAIN out.loaded_before :
              /\ k \in DOMAIN _models
              /\ _models[k].staging = out.loaded_before[k].staging
              /\ _models[k].production = out.loaded_before[k].production

\* ------------------------------------------------------------------------
\* Properties of optional datasets
\* ------------------------------------------------------------------------
\* Keys of the checked declaration that are marked optional, and the others.
OptionalKeys ==
    { check.declared[i].key : i \in { j \in DOMAIN check.declared :
                                        check.declared[j].optional = "True" } }
RequiredKeys == { check.declared[i].key : i \in DOMAIN check.declared } \ OptionalKeys

\* The request supplies nothing the check could refuse: every required key
\* is there and every name it gives is on the datastore.
NothingToRefuse ==
    LET members == IF check.field.kind = "object" THEN check.field.members ELSE <<>>
    IN /\ check.field.kind \in {"object", "absent"}
       /\ check.field.kind = "absent" => check.declared # <<>>
       /\ RequiredKeys \subseteq DOMAIN members
       /\ \A k \in DOMAIN members : members[k] \in datasets_on_datastore

\* C21: a request that leaves optional dataset keys out is accepted, also
\* when it has no datasets field and every declared key is optional; the
\* keys left out are not in the enqueued datasets map and the optional keys
\* supplied are forwarded in it.
C21_Claimed ==
    (check.state = "checked" /\ NothingToRefuse) =>
        LET members == IF check.field.kind = "object" THEN check.field.members ELSE <<>>
        IN /\ check.result.status = 200
           /\ \A k \in OptionalKeys :
                 IF k \in DOMAIN members
                 THEN /\ k \in DOMAIN check.result.datasets_kwarg
                      /\ check.result.datasets_kwarg[k] = members[k]
                 ELSE k \notin DOMAIN check.result.datasets_kwarg

\* C27: a loaded model cached under a model_id is the model loaded for that
\* model_id, never the global model the connector fell back to.
C27_Claimed ==
    \A k \in DOMAIN _models : _models[k].name = k

\* ------------------------------------------------------------------------
\* Properties of the legacy serving service
\* ------------------------------------------------------------------------
\* The retrieval threads in flight for a model id.
InFlight(model_id) ==
    { t \in DOMAIN retrievals :
        retrievals[t].model_id = model_id
        /\ retrievals[t].pc \in {"search", "load", "remove"} }

\* C28: at most one retrieval thread is in flight for a model id, and a
\* request is answered from the calibrated model only if it is loaded.
C28_Claimed ==
    /\ \A model_id \in ModelIds : Cardinality(InFlight(model_id)) <= 1
    /\ \A r \in DOMAIN requests :
          requests[r].answer = "calibrated" => requests[r].model_id \in calibrated_models

\* C29: every retrieval that was started removes its model id from the
\* in-progress list in the end.
C29_Claimed ==
    \A t \in 1..MaxRequests :
        (t \in DOMAIN retrievals) ~>
            (t \in DOMAIN retrievals /\ retrievals[t].pc = "finished")

\* ------------------------------------------------------------------------
\* Properties of the experimentation service
\* ------------------------------------------------------------------------
\* The training threads that were started and have not ended.
Training ==
    { t \in DOMAIN training_threads : training_threads[t].pc \in {"started", "running"} }

\* C30: at most one training pipeline runs at a time: no training thread is
\* started while an earlier one has not finished its pipeline run.
C30_Claimed == Cardinality(Training) <= 1

====
